---------------------------- MODULE Spec2Model ----------------------------
(***************************************************************************)
(* Model of the shipment-confirmation run: OrderProcessor                  *)
(* (src/services/order_processor.py) driving PrestaShopService             *)
(* (src/services/prestashop_service.py), EmailService                      *)
(* (src/services/email_service.py) and NotificationManager                 *)
(* (src/services/notifications.py).                                        *)
(*                                                                         *)
(* Python values are encoded as flat records.  A payload field that may be *)
(* absent, None, a bare string or a mapping is [t, k, s]:                  *)
(*   t : "absent" | "none" | "str" | "map"    shape of the field           *)
(*   k : "nokey" | "none" | "str"             for a mapping, the state of  *)
(*        its special key ("_" for text fields, "@xlink:href" for links)   *)
(*   s : the string (bare, or under the special key), a sequence of chars  *)
(***************************************************************************)
EXTENDS Integers, Sequences, FiniteSets, TLC

\* ------------------------------------------------------------------ bounds

\* Longest order list of the payload whose orders vary freely in shape.
MaxOrders == 2

\* Length of the long payload made of well-formed orders only.
MaxBatch == 6

\* the runs followed against one order source
MaxRuns == 2

\* ------------------------------------------------------- program constants

\* stats["errors"][:5]
ErrorsReported == 5

\* update_order_state(order_id, new_state=4)
\* the state the initial query selects ("filter[current_state]": "[3]")
PendingState == 3

ShippedState == 4

\* <id_employee>5</id_employee>
EmployeeId == 5

\* ------------------------------------------------------------ Python values

Field(t, k, s) == [t |-> t, k |-> k, s |-> s]

Absent == Field("absent", "nokey", <<>>)

PyNone == Field("none", "nokey", <<>>)

Str(s) == Field("str", "nokey", s)

\* a mapping holding the special key with a string value
MapText(s) == Field("map", "str", s)

\* a mapping holding the special key with the value None
MapNone == Field("map", "none", <<>>)

\* a mapping without the special key
MapNoKey == Field("map", "nokey", <<>>)

\* str.strip(): leading and trailing blanks removed
RECURSIVE LStrip(_)
LStrip(s) == IF s # <<>> /\ Head(s) = " " THEN LStrip(Tail(s)) ELSE s

RECURSIVE RStrip(_)
RStrip(s) ==
    IF s # <<>> /\ s[Len(s)] = " " THEN RStrip(SubSeq(s, 1, Len(s) - 1)) ELSE s

Strip(s) == RStrip(LStrip(s))

\* str.lower() on the environment names the model uses
Lower(e) ==
    CASE e = "Production" -> "production"
      [] e = "Development" -> "development"
      [] OTHER -> e

\* ------------------------------------------------------------ order payload

\* The characters strings are made of: a blank and a non-blank.
Trk == <<"T">>

Blank == <<" ">>

Url == <<"u">>

\* a link-bearing field: a mapping with the "@xlink:href" key
Link == MapText(Url)

\* One element of the order collection.  t = "map" is an order record;
\* t = "str" is an element that xmltodict decoded to a bare string.
Order(id, sn, cust, addr) ==
    [t |-> "map", id |-> id, shipping_number |-> sn,
     id_customer |-> cust, id_address_delivery |-> addr]

NonMapping(id) ==
    [t |-> "str", id |-> id, shipping_number |-> Absent,
     id_customer |-> Absent, id_address_delivery |-> Absent]

\* The shapes the order at position i of the payload may have (ids are the
\* remote system's unique order ids, here the position).
OrderShapes(i) ==
    { Order(i, MapText(Trk), Link, Link),
      Order(i, Str(Trk), Link, Link),
      Order(i, MapText(Trk), Absent, Link),
      Order(i, MapText(Trk), Link, MapNoKey),
      Order(i, Absent, Link, Link),
      Order(i, MapText(Blank), Link, Link),
      Order(i, MapNone, Link, Link),
      NonMapping(i) }

RECURSIVE OrderLists(_)
OrderLists(n) ==
    IF n = 0 THEN { <<>> }
    ELSE { Append(l, e) : l \in OrderLists(n - 1), e \in OrderShapes(n) }

\* the long payload: MaxBatch well-formed orders with tracking and both links
Batch == [i \in 1..MaxBatch |-> Order(i, MapText(Trk), Link, Link)]

\* The parsed document: the shape of the "prestashop" node, of its "orders"
\* node, and of the "order" entry (order_t) with its elements (order_v).
Data(p, o, ot, ov) == [prestashop |-> p, orders |-> o, order_t |-> ot, order_v |-> ov]

\* xmltodict: no element -> key absent, one element -> the mapping itself,
\* several -> a list
Document(l) ==
    Data("map", "map",
         IF Len(l) = 0 THEN "absent"
         ELSE IF Len(l) = 1 /\ l[1].t = "map" THEN "map"
         ELSE IF Len(l) = 1 THEN "str" ELSE "list",
         l)

Documents ==
    { Document(l) : l \in UNION { OrderLists(n) : n \in 0..MaxOrders } }
      \cup { Document(Batch) }
      \cup { Data("absent", "absent", "absent", <<>>),
             Data("none", "absent", "absent", <<>>),
             Data("str", "absent", "absent", <<>>),
             Data("map", "none", "absent", <<>>),
             Data("map", "str", "absent", <<>>),
             Data("map", "map", "none", <<>>) }

NoData == Data("absent", "absent", "absent", <<>>)

Response(kind, data) == [kind |-> kind, data |-> data]

\* What the order source may answer to the initial query.
Responses ==
    { Response(k, NoData) :
        k \in {"transport_error", "http_error", "empty_body", "unparsable"} }
      \cup { Response("xml", d) : d \in Documents }

\* the answer once requests.get has returned it
Consumed == Response("consumed", NoData)

\* ------------------------------------------------------- PrestaShopService

\* _normalize_orders without the wrapping of a single order (lines 113-115):
\* the mapping falls through to the unexpected-type branch
_normalize_orders_SingleUnwrapped(data) ==
    IF data.prestashop \in {"absent", "none"} THEN <<>>
    ELSE IF data.prestashop # "map" THEN <<>>
    ELSE IF data.orders \in {"absent", "none"} THEN <<>>
    ELSE IF data.orders # "map" THEN <<>>
    ELSE IF data.order_t = "list" THEN data.order_v
    ELSE <<>>

\* _normalize_orders: the list of order elements of the parsed document
_normalize_orders(data) ==
    IF data.prestashop \in {"absent", "none"} THEN <<>>
    ELSE IF data.prestashop # "map" THEN <<>>    \* .get raises, caught: []
    ELSE IF data.orders \in {"absent", "none"} THEN <<>>
    ELSE IF data.orders # "map" THEN <<>>        \* .get raises, caught: []
    ELSE IF data.order_t = "map" THEN << data.order_v[1] >>
    ELSE IF data.order_t = "list" THEN data.order_v
    ELSE IF data.order_t = "absent" THEN <<>>    \* the default [] is returned
    ELSE <<>>                                    \* unexpected type

\* order["shipping_number"] as the filter's loop body leaves it
NormalizeShipping(f) ==
    IF f.t = "absent" THEN MapText(<<>>)
    ELSE IF f.t # "map"
         THEN MapText(IF f.t = "str" /\ f.s # <<>> THEN f.s ELSE <<>>)
    ELSE IF f.k = "nokey" THEN MapText(<<>>)
    ELSE f

\* the loop body raised; `input` is the input list as it was left
FilterRaised(input) == [raised |-> TRUE, list |-> <<>>, input |-> input]

\* the loop keeping every order whose text is non-empty before trimming
\* (no .strip() at line 156)
RECURSIVE FilterLoop_Untrimmed(_, _, _, _)
FilterLoop_Untrimmed(orders, i, filtered_orders, seen) ==
    IF i > Len(orders)
    THEN [raised |-> FALSE, list |-> filtered_orders, input |-> seen]
    ELSE LET order == orders[i]
             sn == NormalizeShipping(order.shipping_number)
             visited == [order EXCEPT !.shipping_number = sn]
             unvisited == SubSeq(orders, i + 1, Len(orders))
         IN  IF order.t # "map"
             THEN FilterRaised(seen \o << order >> \o unvisited)
             ELSE IF sn.k # "str"
                  THEN FilterRaised(seen \o << visited >> \o unvisited)
             ELSE IF sn.s # <<>>
                  THEN FilterLoop_Untrimmed(orders, i + 1,
                       Append(filtered_orders, visited),
                       Append(seen, visited))
             ELSE FilterLoop_Untrimmed(orders, i + 1,
                       filtered_orders, Append(seen, visited))

\* the loop assigning order["shipping_number"] only on the orders it keeps
RECURSIVE FilterLoop_KeptOnly(_, _, _, _)
FilterLoop_KeptOnly(orders, i, filtered_orders, seen) ==
    IF i > Len(orders)
    THEN [raised |-> FALSE, list |-> filtered_orders, input |-> seen]
    ELSE LET order == orders[i]
             sn == NormalizeShipping(order.shipping_number)
             visited == [order EXCEPT !.shipping_number = sn]
             unvisited == SubSeq(orders, i + 1, Len(orders))
         IN  IF order.t # "map"
             THEN FilterRaised(seen \o << order >> \o unvisited)
             ELSE IF sn.k # "str"
                  THEN FilterRaised(seen \o << order >> \o unvisited)
             ELSE IF Strip(sn.s) # <<>>
                  THEN FilterLoop_KeptOnly(orders, i + 1,
                       Append(filtered_orders, visited),
                       Append(seen, visited))
             ELSE FilterLoop_KeptOnly(orders, i + 1,
                       filtered_orders, Append(seen, order))

\* the for loop of _filter_orders_with_tracking from position i on:
\* filtered_orders are the orders appended so far, seen the orders visited
\* so far as the loop body has left them (order["shipping_number"] assigned).
\* The result is the list returned, or raised when the loop body raises
\* (order.get on a non-mapping, .strip() on None), with the input list as the
\* call leaves it.
RECURSIVE FilterLoop(_, _, _, _)
FilterLoop(orders, i, filtered_orders, seen) ==
    IF i > Len(orders)
    THEN [raised |-> FALSE, list |-> filtered_orders, input |-> seen]
    ELSE LET order == orders[i]
             sn == NormalizeShipping(order.shipping_number)
             visited == [order EXCEPT !.shipping_number = sn]
             unvisited == SubSeq(orders, i + 1, Len(orders))
         IN  IF order.t # "map"
             THEN FilterRaised(seen \o << order >> \o unvisited)
             ELSE IF sn.k # "str"
                  THEN FilterRaised(seen \o << visited >> \o unvisited)
             ELSE IF Strip(sn.s) # <<>>
                  THEN FilterLoop(orders, i + 1,
                       Append(filtered_orders, visited),
                       Append(seen, visited))
             ELSE FilterLoop(orders, i + 1,
                       filtered_orders, Append(seen, visited))

_filter_orders_with_tracking(orders) == FilterLoop(orders, 1, <<>>, <<>>)

\* the value fetch_pending_shipment_orders returns: None, or a list
NoneResult == [isNone |-> TRUE, list |-> <<>>]

ListResult(l) == [isNone |-> FALSE, list |-> l]

\* fetch_pending_shipment_orders answering None to an empty body
fetch_pending_shipment_orders_EmptyIsNone(response) ==
    CASE response.kind \in {"transport_error", "http_error"} -> NoneResult
      [] response.kind = "empty_body" -> NoneResult
      [] response.kind = "unparsable" -> NoneResult
      [] OTHER ->
           LET f == _filter_orders_with_tracking(_normalize_orders(response.data))
           IN  IF f.raised THEN NoneResult ELSE ListResult(f.list)

fetch_pending_shipment_orders(response) ==
    CASE response.kind \in {"transport_error", "http_error"} -> NoneResult
      [] response.kind = "empty_body" -> ListResult(<<>>)
      [] response.kind = "unparsable" -> NoneResult
      [] OTHER ->
           LET f == _filter_orders_with_tracking(_normalize_orders(response.data))
           IN  IF f.raised THEN NoneResult ELSE ListResult(f.list)

\* what a remote entity fetch answers: "ok", or "error" (transport error,
\* HTTP error, timeout or unparsable document)
RemoteOutcomes == {"ok", "error"}

CustomerEmail == "customer@example.com"

\* fetch_customer_data / fetch_address_data: the record, or None
fetch_customer_data(remote) ==
    IF remote = "ok" THEN [isNone |-> FALSE, email |-> CustomerEmail]
    ELSE [isNone |-> TRUE, email |-> ""]

fetch_address_data(remote) == [isNone |-> remote # "ok"]

\* the state-transition request posted to /order_histories
NoRequest == [id_order |-> 0, id_employee |-> 0, id_order_state |-> 0]

\* update_order_state: the request posted and the boolean returned
update_order_state(order_id, new_state, remote) ==
    [request |-> [id_order |-> order_id, id_employee |-> EmployeeId,
                  id_order_state |-> new_state],
     updated |-> (remote = "ok")]

\* ------------------------------------------------------------ EmailService

VARIABLES
    environment,      \* EmailService.environment (already lower-cased)
    dev_test_email,   \* EmailService.dev_test_email, "" when not configured
    bcc_email         \* EmailService.bcc_email, "" when not configured

\* values of ENVIRONMENT as configured
Environments == {"production", "Production", "development", "Development", "staging"}

TestEmail == "test@example.com"

BccEmail == "bcc@example.com"

\* what the template service answers: a document with body.html, a document
\* without (or with an empty) body.html, or an error / timeout
RenderOutcomes == {"html", "no_html", "error"}

\* generate_email_template without the test of lines 78-80: a document with
\* no body.html is returned as content
generate_email_template_NoHtmlTest(remote) == remote \in {"html", "no_html"}

\* generate_email_template: TRUE when HTML content is returned, FALSE for None
generate_email_template(remote) == remote = "html"

\* what the SMTP exchange does: "ok", or "error" (connection, TLS, login or
\* sendmail raising)
SmtpOutcomes == {"ok", "error"}

NoMail == [to |-> "", bcc |-> "", recipients |-> {}]

\* send_shipment_confirmation_email adding the blind copy to the transport
\* recipients in every mode (line 148 without the production test)
send_shipment_confirmation_email_BccInEveryMode(customer_email, smtp) ==
    IF environment = "development" /\ dev_test_email = ""
    THEN [sent |-> FALSE, mail |-> NoMail, smtp |-> "none"]
    ELSE LET recipient_email ==
                 IF environment = "development" THEN dev_test_email
                 ELSE customer_email
             bcc ==
                 IF environment = "production" /\ bcc_email # ""
                 THEN bcc_email ELSE ""
             recipients ==
                 {recipient_email} \cup
                 (IF bcc_email # "" THEN {bcc_email} ELSE {})
         IN  IF smtp = "ok"
             THEN [sent |-> TRUE, smtp |-> smtp,
                   mail |-> [to |-> recipient_email, bcc |-> bcc,
                             recipients |-> recipients]]
             ELSE [sent |-> FALSE, mail |-> NoMail, smtp |-> smtp]

\* send_shipment_confirmation_email falling back to the customer's address
\* when development mode has no test address (no return at line 115)
send_shipment_confirmation_email_FallsBackToCustomer(customer_email, smtp) ==
    LET recipient_email ==
            IF environment = "development" /\ dev_test_email # ""
            THEN dev_test_email ELSE customer_email
        bcc ==
            IF environment = "production" /\ bcc_email # ""
            THEN bcc_email ELSE ""
        recipients ==
            {recipient_email} \cup
            (IF environment = "production" /\ bcc_email # ""
             THEN {bcc_email} ELSE {})
    IN  IF smtp = "ok"
        THEN [sent |-> TRUE, smtp |-> smtp,
              mail |-> [to |-> recipient_email, bcc |-> bcc,
                        recipients |-> recipients]]
        ELSE [sent |-> FALSE, mail |-> NoMail, smtp |-> smtp]

\* send_shipment_confirmation_email: the boolean returned, the message handed
\* to sendmail (NoMail when nothing was transmitted) and what the SMTP
\* exchange did ("none" when the call returns before it)
send_shipment_confirmation_email(customer_email, smtp) ==
    IF environment = "development" /\ dev_test_email = ""
    THEN [sent |-> FALSE, mail |-> NoMail, smtp |-> "none"]
    ELSE LET recipient_email ==
                 IF environment = "development" THEN dev_test_email
                 ELSE customer_email
             bcc ==
                 IF environment = "production" /\ bcc_email # ""
                 THEN bcc_email ELSE ""
             recipients ==
                 {recipient_email} \cup
                 (IF environment = "production" /\ bcc_email # ""
                  THEN {bcc_email} ELSE {})
         IN  IF smtp = "ok"
             THEN [sent |-> TRUE, smtp |-> smtp,
                   mail |-> [to |-> recipient_email, bcc |-> bcc,
                             recipients |-> recipients]]
             ELSE [sent |-> FALSE, mail |-> NoMail, smtp |-> smtp]

\* ---------------------------------------------------------- OrderProcessor

VARIABLES
    response,        \* the order source's answer to the initial query
    orders,          \* what fetch_pending_shipment_orders returned
    pc,              \* position of the run
    idx,             \* position of the for loop in orders
    stats,           \* OrderProcessor.stats
    success,         \* value process_single_order returned for the order
    cur,             \* the calls made for the order being processed
    results,         \* the classification of each order iterated so far
    notifications,   \* the notify_* calls made, in order
    call,            \* a helper called on its own: argument and outcome
    shop             \* the order source across runs: each order's state
                     \* and the shipment mails sent for it

vars == << environment, dev_test_email, bcc_email, response, orders, pc, idx,
           stats, success, cur, results, notifications, call, shop >>

\* a run studied on its own: the order source is not followed
Untracked == [tracked |-> FALSE]

\* the order source after a shipment mail for the order has been handed to
\* the SMTP server
Mailed(r, id) ==
    IF r.tracked THEN [r EXCEPT !.mails[id] = @ + 1] ELSE r

\* the order source after it accepted the order_histories entry: the order
\* is in the new state
Transitioned(r, id, new_state) ==
    IF r.tracked THEN [r EXCEPT !.state[id] = new_state] ELSE r

\* no helper is being called on its own
NoCall == [fn |-> "none"]

ZeroStats ==
    [orders_processed |-> 0, orders_success |-> 0, orders_failed |-> 0,
     errors |-> <<>>]

\* The per-order record of calls: each step is "none" (not called), "ok" or
\* "fail"; mail is the message transmitted, request the state transition
\* posted, template what the template service answered, smtp what the SMTP
\* exchange did.
NewOrder(id) ==
    [order_id |-> id, links |-> "none", customer |-> "none",
     address |-> "none", render |-> "none", send |-> "none",
     update |-> "none", raised |-> FALSE, mail |-> NoMail,
     request |-> NoRequest, template |-> "none", smtp |-> "none"]

Idle == NewOrder(0)

\* _extract_xlink_href without the isinstance test: a bare string is
\* returned as the link
_extract_xlink_href_NoTypeTest(field) ==
    IF field.t \in {"map", "str"} /\ (field.t = "str" \/ field.k = "str")
    THEN Str(field.s) ELSE PyNone

\* _extract_xlink_href: the value under "@xlink:href", or None
_extract_xlink_href(field) ==
    IF field.t = "map" /\ field.k = "str" THEN Str(field.s) ELSE PyNone

\* Python truth value of what _extract_xlink_href returns
Truthy(v) == v.t = "str" /\ v.s # <<>>

InOrder == {"resolve", "customer", "address", "render", "send", "update"}

Notification(kind, errors) == [kind |-> kind, errors |-> errors]

Init ==
    /\ environment \in { Lower(e) : e \in Environments }
    /\ dev_test_email \in {"", TestEmail, BccEmail}
    /\ bcc_email \in {"", BccEmail}
    /\ response \in Responses
    \* the long payload is run without a blind copy: what a mail holds is
    \* settled on the short payloads
    /\ response.data.order_v = Batch =>
          bcc_email = "" /\ dev_test_email # BccEmail
    /\ orders = ListResult(<<>>)
    /\ pc = "start"
    /\ idx = 1
    /\ stats = ZeroStats
    /\ success = FALSE
    /\ cur = Idle
    /\ results = <<>>
    /\ notifications = <<>>
    /\ call = NoCall
    /\ shop = Untracked

\* FetchOrders without the return after the critical notification: len(None)
\* raises and the handler of lines 213-219 notifies a second time
FetchOrders_NoReturn ==
    /\ pc = "start"
    /\ LET r == fetch_pending_shipment_orders(response)
       IN  /\ orders' = r
           /\ notifications' =
                 IF r.isNone
                 THEN notifications \o << Notification("critical", <<>>),
                                          Notification("critical", <<>>) >>
                 ELSE notifications
           /\ pc' = IF r.isNone \/ Len(r.list) = 0 THEN "done" ELSE "loop"
    /\ response' = Consumed
    /\ UNCHANGED << call, shop, environment, dev_test_email,
                    bcc_email, idx, stats,
                    success, cur, results >>

\* FetchOrders issuing the critical notification for an empty list as well
FetchOrders_EmptyIsCritical ==
    /\ pc = "start"
    /\ LET r == fetch_pending_shipment_orders(response)
       IN  /\ orders' = r
           /\ notifications' =
                 IF r.isNone \/ Len(r.list) = 0
                 THEN Append(notifications, Notification("critical", <<>>))
                 ELSE notifications
           /\ pc' = IF r.isNone \/ Len(r.list) = 0 THEN "done" ELSE "loop"
    /\ response' = Consumed
    /\ UNCHANGED << call, shop, environment, dev_test_email,
                    bcc_email, idx, stats,
                    success, cur, results >>

\* process_all_orders_async, lines 178-191: the initial query; None issues
\* the critical notification and ends the run, an empty list ends the run.
FetchOrders ==
    /\ pc = "start"
    /\ LET r == fetch_pending_shipment_orders(response)
       IN  /\ orders' = r
           /\ notifications' =
                 IF r.isNone
                 THEN Append(notifications, Notification("critical", <<>>))
                 ELSE notifications
           /\ pc' = IF r.isNone \/ Len(r.list) = 0 THEN "done" ELSE "loop"
    /\ response' = Consumed
    /\ UNCHANGED << call, shop, environment, dev_test_email,
                    bcc_email, idx, stats,
                    success, cur, results >>

\* BeginOrder walking the list from its end
BeginOrder_FromTheEnd ==
    /\ pc = "loop"
    /\ idx <= Len(orders.list)
    /\ stats' = [stats EXCEPT !.orders_processed = @ + 1]
    /\ cur' = NewOrder(orders.list[Len(orders.list) - idx + 1].id)
    /\ pc' = "resolve"
    /\ UNCHANGED << call, shop, environment, dev_test_email,
                    bcc_email, response, orders,
                    idx, success, results, notifications >>

\* lines 194-197: the loop takes the next order, counts it and calls
\* process_single_order
BeginOrder ==
    /\ pc = "loop"
    /\ idx <= Len(orders.list)
    /\ stats' = [stats EXCEPT !.orders_processed = @ + 1]
    /\ cur' = NewOrder(orders.list[idx].id)
    /\ pc' = "resolve"
    /\ UNCHANGED << call, shop, environment, dev_test_email,
                    bcc_email, response, orders,
                    idx, success, results, notifications >>

\* process_single_order returns `ok` after the step recorded in `c`
Return(c, ok) ==
    /\ cur' = c
    /\ success' = ok
    /\ pc' = "classify"

\* process_single_order goes on to step `next`
Continue(c, next) ==
    /\ cur' = c
    /\ pc' = next
    /\ UNCHANGED success

\* lines 54-66: the two links are extracted; a missing one fails the order
\* ResolveLinks failing the order only when both links are missing
ResolveLinks_BothMissing ==
    /\ pc = "resolve"
    /\ LET order == orders.list[idx]
           customer_url == _extract_xlink_href(order.id_customer)
           address_url == _extract_xlink_href(order.id_address_delivery)
       IN  IF ~Truthy(customer_url) /\ ~Truthy(address_url)
           THEN Return([cur EXCEPT !.links = "fail"], FALSE)
           ELSE Continue([cur EXCEPT !.links = "ok"], "customer")
    /\ UNCHANGED << call, shop, environment, dev_test_email,
                    bcc_email, response, orders,
                    idx, stats, results, notifications >>

\* lines 60-66
ResolveLinks ==
    /\ pc = "resolve"
    /\ LET order == orders.list[idx]
           customer_url == _extract_xlink_href(order.id_customer)
           address_url == _extract_xlink_href(order.id_address_delivery)
       IN  IF ~Truthy(customer_url) \/ ~Truthy(address_url)
           THEN Return([cur EXCEPT !.links = "fail"], FALSE)
           ELSE Continue([cur EXCEPT !.links = "ok"], "customer")
    /\ UNCHANGED << call, shop, environment, dev_test_email,
                    bcc_email, response, orders,
                    idx, stats, results, notifications >>

\* FetchCustomer going on to the address fetch although the customer is None
FetchCustomer_IgnoresFailure ==
    /\ pc = "customer"
    /\ \E remote \in RemoteOutcomes :
          LET customer == fetch_customer_data(remote)
          IN  Continue([cur EXCEPT !.customer =
                           IF customer.isNone THEN "fail" ELSE "ok"], "address")
    /\ UNCHANGED << call, shop, environment, dev_test_email,
                    bcc_email, response, orders,
                    idx, stats, results, notifications >>

\* FetchCustomer fetching again after a failed fetch
FetchCustomer_Retries ==
    /\ pc = "customer"
    /\ \E remote \in RemoteOutcomes :
          LET customer == fetch_customer_data(remote)
          IN  IF customer.isNone
              THEN Continue([cur EXCEPT !.customer = "fail"], "customer")
              ELSE Continue([cur EXCEPT !.customer = "ok"], "address")
    /\ UNCHANGED << call, shop, environment, dev_test_email,
                    bcc_email, response, orders,
                    idx, stats, results, notifications >>

\* lines 68-72
FetchCustomer ==
    /\ pc = "customer"
    /\ \E remote \in RemoteOutcomes :
          LET customer == fetch_customer_data(remote)
          IN  IF customer.isNone
              THEN Return([cur EXCEPT !.customer = "fail"], FALSE)
              ELSE Continue([cur EXCEPT !.customer = "ok"], "address")
    /\ UNCHANGED << call, shop, environment, dev_test_email,
                    bcc_email, response, orders,
                    idx, stats, results, notifications >>

\* FetchAddress going on to the render although the address is None
FetchAddress_IgnoresFailure ==
    /\ pc = "address"
    /\ \E remote \in RemoteOutcomes :
          LET address == fetch_address_data(remote)
          IN  Continue([cur EXCEPT !.address =
                           IF address.isNone THEN "fail" ELSE "ok"], "render")
    /\ UNCHANGED << call, shop, environment, dev_test_email,
                    bcc_email, response, orders,
                    idx, stats, results, notifications >>

\* lines 74-78
FetchAddress ==
    /\ pc = "address"
    /\ \E remote \in RemoteOutcomes :
          LET address == fetch_address_data(remote)
          IN  IF address.isNone
              THEN Return([cur EXCEPT !.address = "fail"], FALSE)
              ELSE Continue([cur EXCEPT !.address = "ok"], "render")
    /\ UNCHANGED << call, shop, environment, dev_test_email,
                    bcc_email, response, orders,
                    idx, stats, results, notifications >>

\* lines 80-84
GenerateTemplate ==
    /\ pc = "render"
    /\ \E remote \in RenderOutcomes :
          LET html_content == generate_email_template(remote)
          IN  IF ~html_content
              THEN Return([cur EXCEPT !.render = "fail",
                                      !.template = remote], FALSE)
              ELSE Continue([cur EXCEPT !.render = "ok",
                                        !.template = remote], "send")
    /\ UNCHANGED << call, shop, environment, dev_test_email,
                    bcc_email, response, orders,
                    idx, stats, results, notifications >>

\* lines 86-95: the mail goes to customer["email"] of the fetched customer
SendEmail ==
    /\ pc = "send"
    /\ \E smtp \in SmtpOutcomes :
          LET email_sent == send_shipment_confirmation_email(
                                fetch_customer_data("ok").email, smtp)
          IN  IF ~email_sent.sent
              THEN /\ Return([cur EXCEPT !.send = "fail",
                                         !.smtp = email_sent.smtp,
                                         !.mail = email_sent.mail], FALSE)
                   /\ shop' = shop
              ELSE /\ Continue([cur EXCEPT !.send = "ok",
                                           !.smtp = email_sent.smtp,
                                           !.mail = email_sent.mail],
                               "update")
                   /\ shop' = Mailed(shop, cur.order_id)
    /\ UNCHANGED << call, environment, dev_test_email,
                    bcc_email, response, orders,
                    idx, stats, results, notifications >>

\* UpdateState with an order source that moves the order on even when the
\* request was not accepted
UpdateState_AlwaysTransitions ==
    /\ pc = "update"
    /\ \E outcome \in RemoteOutcomes :
          LET state_updated ==
                  update_order_state(cur.order_id, ShippedState, outcome)
          IN  /\ Return([cur EXCEPT
                           !.update = IF state_updated.updated
                                      THEN "ok" ELSE "fail",
                           !.request = state_updated.request], TRUE)
              /\ shop' = Transitioned(shop, cur.order_id, ShippedState)
    /\ UNCHANGED << call, environment, dev_test_email,
                    bcc_email, response, orders,
                    idx, stats, results, notifications >>

\* UpdateState returning False when the state update failed
UpdateState_FailureIsFatal ==
    /\ pc = "update"
    /\ \E remote \in RemoteOutcomes :
          LET state_updated ==
                  update_order_state(cur.order_id, ShippedState, remote)
          IN  /\ Return([cur EXCEPT
                           !.update = IF state_updated.updated
                                      THEN "ok" ELSE "fail",
                           !.request = state_updated.request],
                        state_updated.updated)
              /\ shop' = IF state_updated.updated
                            THEN Transitioned(shop, cur.order_id,
                                              ShippedState)
                            ELSE shop
    /\ UNCHANGED << call, environment, dev_test_email,
                    bcc_email, response, orders,
                    idx, stats, results, notifications >>

\* lines 97-105: a failed state update is logged and the order still
\* returns True
UpdateState ==
    /\ pc = "update"
    /\ \E remote \in RemoteOutcomes :
          LET state_updated ==
                  update_order_state(cur.order_id, ShippedState, remote)
          IN  /\ Return([cur EXCEPT
                           !.update = IF state_updated.updated
                                      THEN "ok" ELSE "fail",
                           !.request = state_updated.request], TRUE)
              /\ shop' = IF state_updated.updated
                            THEN Transitioned(shop, cur.order_id,
                                              ShippedState)
                            ELSE shop
    /\ UNCHANGED << call, environment, dev_test_email,
                    bcc_email, response, orders,
                    idx, stats, results, notifications >>

\* RaiseInOrder with the handler returning True after recording the error
RaiseInOrder_ReturnsTrue ==
    /\ pc \in InOrder
    /\ stats' = [stats EXCEPT !.errors =
                    Append(@, [order_id |-> orders.list[idx].id,
                               error |-> "exception"])]
    /\ Return([cur EXCEPT !.raised = TRUE], TRUE)
    /\ UNCHANGED << call, shop, environment, dev_test_email,
                    bcc_email, response, orders,
                    idx, results, notifications >>

\* lines 107-113: an Exception raised inside the try block of
\* process_single_order is recorded in stats["errors"] and the order returns
\* False.  The services above catch their own exceptions, so the exception is
\* one of the interpreter or of a substituted collaborator.
RaiseInOrder ==
    /\ pc \in InOrder
    /\ stats' = [stats EXCEPT !.errors =
                    Append(@, [order_id |-> orders.list[idx].id,
                               error |-> "exception"])]
    /\ Return([cur EXCEPT !.raised = TRUE], FALSE)
    /\ UNCHANGED << call, shop, environment, dev_test_email,
                    bcc_email, response, orders,
                    idx, results, notifications >>

\* ClassifyOrder with orders_failed incremented outside the else branch
ClassifyOrder_AlwaysFailed ==
    /\ pc = "classify"
    /\ stats' = IF success
                THEN [stats EXCEPT !.orders_success = @ + 1,
                                   !.orders_failed = @ + 1]
                ELSE [stats EXCEPT !.orders_failed = @ + 1]
    /\ results' = Append(results, success)
    /\ idx' = idx + 1
    /\ pc' = "loop"
    /\ cur' = Idle
    /\ success' = FALSE
    /\ UNCHANGED << call, shop, environment, dev_test_email,
                    bcc_email, response, orders,
                    notifications >>

\* ClassifyOrder leaving the loop (break) after a failed order
ClassifyOrder_BreakOnFailure ==
    /\ pc = "classify"
    /\ stats' = IF success
                THEN [stats EXCEPT !.orders_success = @ + 1]
                ELSE [stats EXCEPT !.orders_failed = @ + 1]
    /\ results' = Append(results, success)
    /\ idx' = IF success THEN idx + 1 ELSE Len(orders.list) + 1
    /\ pc' = "loop"
    /\ cur' = Idle
    /\ success' = FALSE
    /\ UNCHANGED << call, shop, environment, dev_test_email,
                    bcc_email, response, orders,
                    notifications >>

\* lines 199-202: the order is counted as success or as failure, and the
\* loop moves to the next order; the order's locals are gone
ClassifyOrder ==
    /\ pc = "classify"
    /\ stats' = IF success
                THEN [stats EXCEPT !.orders_success = @ + 1]
                ELSE [stats EXCEPT !.orders_failed = @ + 1]
    /\ results' = Append(results, success)
    /\ idx' = idx + 1
    /\ pc' = "loop"
    /\ cur' = Idle
    /\ success' = FALSE
    /\ UNCHANGED << call, shop, environment, dev_test_email,
                    bcc_email, response, orders,
                    notifications >>

\* the slice [-5:] instead of [:5]
FirstErrors_LastFive(errors) ==
    SubSeq(errors,
           IF Len(errors) < ErrorsReported THEN 1
           ELSE Len(errors) - ErrorsReported + 1,
           Len(errors))

\* stats["errors"][:5]
FirstErrors(errors) ==
    SubSeq(errors, 1, IF Len(errors) < ErrorsReported THEN Len(errors)
                      ELSE ErrorsReported)

\* send_execution_summary with the test orders_failed > 1
send_execution_summary_OffByOne(st) ==
    IF st.orders_processed = 0 THEN <<>>
    ELSE IF st.orders_failed > 1
         THEN << Notification("warning", FirstErrors(st.errors)) >>
    ELSE << Notification("success", <<>>) >>

\* send_execution_summary: the notify_* call it makes, if any
send_execution_summary(st) ==
    IF st.orders_processed = 0 THEN <<>>
    ELSE IF st.orders_failed > 0
         THEN << Notification("warning", FirstErrors(st.errors)) >>
    ELSE << Notification("success", <<>>) >>

\* lines 204-211: once the loop is exhausted the summary is sent and the run
\* ends
SendExecutionSummary ==
    /\ pc = "loop"
    /\ idx > Len(orders.list)
    /\ notifications' = notifications \o send_execution_summary(stats)
    /\ pc' = "done"
    /\ UNCHANGED << call, shop, environment, dev_test_email,
                    bcc_email, response, orders,
                    idx, stats, success, cur, results >>

Next ==
    \/ FetchOrders
    \/ BeginOrder
    \/ ResolveLinks
    \/ FetchCustomer
    \/ FetchAddress
    \/ GenerateTemplate
    \/ SendEmail
    \/ UpdateState
    \/ RaiseInOrder
    \/ ClassifyOrder
    \/ SendExecutionSummary

Spec == Init /\ [][Next]_vars

\* The run is one task that the event loop keeps running until it returns:
\* every step that is enabled is eventually taken.
FairSpec == Spec /\ WF_vars(Next)

\* ------------------------------------------------- helpers called on their own

\* the strings a text-bearing field may hold
Texts == { <<>>, Trk, Blank, <<" ", "T", " ">> }

\* every shape of a tracking field
TrackingShapes ==
    {Absent, PyNone, MapNoKey, MapNone}
      \cup { Str(t) : t \in Texts } \cup { MapText(t) : t \in Texts }

\* every shape of a link field
LinkShapes ==
    {Absent, PyNone, MapNoKey, MapNone, Str(Url), MapText(Url), MapText(<<>>)}

\* the lists of n elements handed to the filter
RECURSIVE FilterInputs(_)
FilterInputs(n) ==
    IF n = 0 THEN { <<>> }
    ELSE { Append(l, e) :
             l \in FilterInputs(n - 1),
             e \in { Order(n, sn, Link, Link) : sn \in TrackingShapes }
                     \cup { NonMapping(n) } }

\* the documents handed to _normalize_orders: those of the payload, and a
\* list holding a single element
NormalizeInputs ==
    Documents \cup { Data("map", "map", "list", l) : l \in OrderLists(1) }

\* ------------------------------------- NotificationManager called on its own

\* what the environment configures for the two channels: the enabled flags,
\* whether the mail channel has sender, password and recipients, whether the
\* chat channel has its webhook URL
NotifyConfigs ==
    [email_flag : BOOLEAN, email_config : BOOLEAN,
     slack_flag : BOOLEAN, webhook_url : BOOLEAN]

\* _validate_config keeping the flags as configured
_validate_config_KeepsFlags(cfg) ==
    [email |-> cfg.email_flag, slack |-> cfg.slack_flag]

\* _validate_config: the enabled flags after construction
_validate_config(cfg) ==
    [email |-> cfg.email_flag /\ cfg.email_config,
     slack |-> cfg.slack_flag /\ cfg.webhook_url]

\* the marking of a notification mail: its subject prefix and heading
EmailMarking(is_critical) == IF is_critical THEN "critical" ELSE "warning"

\* the marking of a chat message: the status text of its header
SlackMarking(type, is_critical) ==
    IF type = "info" THEN "info"
    ELSE IF type = "success" THEN "success"
    ELSE IF is_critical THEN "critical"
    ELSE "warning"

NotifyFns == {"send_critical_notification", "notify_warning", "notify_success"}

\* the arguments a notify function passes to the channel coroutines
IsCritical(fn) == fn = "send_critical_notification"

SlackType(fn) ==
    CASE fn = "send_critical_notification" -> "error"
      [] fn = "notify_warning" -> "warning"
      [] fn = "notify_success" -> "success"

\* a channel coroutine: not started, awaiting its network exchange, or
\* returned; attempted when it got as far as the exchange; result is the
\* boolean it returned
Pending == [state |-> "pending", attempted |-> FALSE, result |-> FALSE]

\* a call of a notify function on a manager built from cfg
Notify(fn, cfg) ==
    [fn |-> fn, arg |-> cfg, returned |-> FALSE, result |-> FALSE,
     after |-> cfg, enabled |-> _validate_config(cfg),
     email |-> Pending, slack |-> Pending, delivered |-> {}]

Notifying == call.fn \in NotifyFns /\ ~call.returned

\* The first step of a channel coroutine: a disabled channel returns False
\* at once, an enabled one builds its message and awaits the exchange.
Started(enabled) ==
    IF enabled THEN [state |-> "running", attempted |-> TRUE, result |-> FALSE]
    ELSE [state |-> "done", attempted |-> FALSE, result |-> FALSE]

Finished(ok) == [state |-> "done", attempted |-> TRUE, result |-> ok]

\* send_email_notification is entered: at once by gather and by
\* notify_warning, by send_info_notification only after the chat channel
\* has returned False
StartEmail ==
    /\ pc = "call"
    /\ Notifying
    /\ call.email.state = "pending"
    /\ call.fn = "notify_success" =>
          call.slack.state = "done" /\ ~call.slack.result
    /\ call' = [call EXCEPT !.email = Started(call.enabled.email)]
    /\ UNCHANGED << environment, dev_test_email, bcc_email, response, orders,
                    pc, idx, stats, success, cur, results, notifications,
                    shop >>

\* the exchange with the SMTP server ends: sent, or an exception or timeout
\* caught (False).  Under gather the event loop has run the first step of
\* both tasks before it delivers any completion.
FinishEmail ==
    /\ pc = "call"
    /\ Notifying
    /\ call.email.state = "running"
    /\ call.fn = "send_critical_notification" => call.slack.state # "pending"
    /\ \E ok \in BOOLEAN :
          call' = [call EXCEPT
                     !.email = Finished(ok),
                     !.delivered =
                        IF ok
                        THEN @ \cup {[channel |-> "email",
                                      marking |->
                                         EmailMarking(IsCritical(call.fn))]}
                        ELSE @]
    /\ UNCHANGED << environment, dev_test_email, bcc_email, response, orders,
                    pc, idx, stats, success, cur, results, notifications,
                    shop >>

\* StartSlack with notify_warning not awaiting the mail channel first
StartSlack_NotAwaitingEmail ==
    /\ pc = "call"
    /\ Notifying
    /\ call.slack.state = "pending"
    /\ call' = [call EXCEPT !.slack = Started(call.enabled.slack)]
    /\ UNCHANGED << environment, dev_test_email, bcc_email, response, orders,
                    pc, idx, stats, success, cur, results, notifications,
                    shop >>

\* send_slack_notification is entered: at once by gather and by
\* send_info_notification, by notify_warning only after the mail channel
\* has returned
StartSlack ==
    /\ pc = "call"
    /\ Notifying
    /\ call.slack.state = "pending"
    /\ call.fn = "notify_warning" => call.email.state = "done"
    /\ call' = [call EXCEPT !.slack = Started(call.enabled.slack)]
    /\ UNCHANGED << environment, dev_test_email, bcc_email, response, orders,
                    pc, idx, stats, success, cur, results, notifications,
                    shop >>

\* the webhook answers: status 200, or another status, an exception or a
\* timeout (False)
FinishSlack ==
    /\ pc = "call"
    /\ Notifying
    /\ call.slack.state = "running"
    /\ call.fn = "send_critical_notification" => call.email.state # "pending"
    /\ \E ok \in BOOLEAN :
          call' = [call EXCEPT
                     !.slack = Finished(ok),
                     !.delivered =
                        IF ok
                        THEN @ \cup {[channel |-> "slack",
                                      marking |->
                                         SlackMarking(SlackType(call.fn),
                                                      IsCritical(call.fn))]}
                        ELSE @]
    /\ UNCHANGED << environment, dev_test_email, bcc_email, response, orders,
                    pc, idx, stats, success, cur, results, notifications,
                    shop >>

\* the notify function reporting success only when both channels succeeded
ReturnNotification_BothNeeded ==
    /\ pc = "call"
    /\ Notifying
    /\ call.slack.state = "done"
    /\ call.email.state = "done" \/
          (call.fn = "notify_success" /\ call.slack.result)
    /\ call' = [call EXCEPT !.returned = TRUE,
                            !.result = call.email.result /\ call.slack.result]
    /\ UNCHANGED << environment, dev_test_email, bcc_email, response, orders,
                    pc, idx, stats, success, cur, results, notifications,
                    shop >>

\* the notify function returns: gather and notify_warning once both
\* channels have returned, send_info_notification as soon as the chat
\* channel has returned True or else when the mail channel has returned;
\* the value is email_result or slack_result
ReturnNotification ==
    /\ pc = "call"
    /\ Notifying
    /\ call.slack.state = "done"
    /\ call.email.state = "done" \/
          (call.fn = "notify_success" /\ call.slack.result)
    /\ call' = [call EXCEPT !.returned = TRUE,
                            !.result = call.email.result \/ call.slack.result]
    /\ UNCHANGED << environment, dev_test_email, bcc_email, response, orders,
                    pc, idx, stats, success, cur, results, notifications,
                    shop >>

\* a call of fn on arg: once returned, result is the value returned and
\* after is the argument as the call has left it
Call(fn, arg) ==
    [fn |-> fn, arg |-> arg, returned |-> FALSE, result |-> <<>>,
     after |-> arg]

Calls ==
    { Call("_filter_orders_with_tracking", l) :
        l \in UNION { FilterInputs(n) : n \in 0..MaxOrders } }
      \cup { Call("_normalize_orders", d) : d \in NormalizeInputs }
      \cup { Call("_extract_xlink_href", f) : f \in LinkShapes }
      \cup { Notify(fn, cfg) : fn \in NotifyFns, cfg \in NotifyConfigs }

CallInit ==
    /\ call \in Calls
    /\ environment = "production"
    /\ dev_test_email = ""
    /\ bcc_email = ""
    /\ response = Consumed
    /\ orders = ListResult(<<>>)
    /\ pc = "call"
    /\ idx = 1
    /\ stats = ZeroStats
    /\ success = FALSE
    /\ cur = Idle
    /\ results = <<>>
    /\ notifications = <<>>
    /\ shop = Untracked

CallFilter ==
    /\ pc = "call"
    /\ call.fn = "_filter_orders_with_tracking"
    /\ ~call.returned
    /\ LET f == _filter_orders_with_tracking(call.arg)
       IN  call' = [call EXCEPT !.returned = TRUE, !.result = f,
                                !.after = f.input]
    /\ UNCHANGED << environment, dev_test_email, bcc_email, response, orders,
                    pc, idx, stats, success, cur, results, notifications,
                    shop >>

\* _normalize_orders only reads its argument
CallNormalize ==
    /\ pc = "call"
    /\ call.fn = "_normalize_orders"
    /\ ~call.returned
    /\ call' = [call EXCEPT !.returned = TRUE,
                            !.result = _normalize_orders(call.arg)]
    /\ UNCHANGED << environment, dev_test_email, bcc_email, response, orders,
                    pc, idx, stats, success, cur, results, notifications,
                    shop >>

\* _extract_xlink_href only reads its argument
CallExtract ==
    /\ pc = "call"
    /\ call.fn = "_extract_xlink_href"
    /\ ~call.returned
    /\ call' = [call EXCEPT !.returned = TRUE,
                            !.result = _extract_xlink_href(call.arg)]
    /\ UNCHANGED << environment, dev_test_email, bcc_email, response, orders,
                    pc, idx, stats, success, cur, results, notifications,
                    shop >>

CallNext ==
    \/ CallFilter
    \/ CallNormalize
    \/ CallExtract
    \/ StartEmail
    \/ FinishEmail
    \/ StartSlack
    \/ FinishSlack
    \/ ReturnNotification

CallSpec == CallInit /\ [][CallNext]_vars

\* ------------------------------------------------- faults inside the run
\* The run with the two faults its handlers and timeouts are there for: an
\* Exception raised by a statement of process_all_orders_async itself, and
\* a remote that accepts a connection and never answers.

\* the text of the exception raised
ErrorText == "exception"

\* notify_critical_error as the handler of lines 213-219 calls it: the
\* message is str(e), the details hold the timestamp and str(e)
CriticalError(e) ==
    [kind |-> "critical", errors |-> <<>>, message |-> e,
     details |-> [timestamp |-> "now", traceback |-> e]]

\* RaiseInRun with the summary sent from the handler as well
RaiseInRun_ThenSummary ==
    /\ (pc = "loop" /\ idx <= Len(orders.list)) \/ pc = "classify"
    /\ notifications' =
          Append(notifications, CriticalError(ErrorText))
            \o send_execution_summary(stats)
    /\ pc' = "done"
    /\ UNCHANGED << call, shop, environment, dev_test_email,
                    bcc_email, response, orders,
                    idx, stats, success, cur, results >>

\* lines 213-219: an Exception raised by a statement of the loop outside
\* process_single_order (lines 189-202: len(orders), the counters) leaves
\* the try block; the handler issues the critical notification and the
\* coroutine returns.  process_single_order and send_execution_summary catch
\* their own exceptions, so the exception is one of the interpreter; once
\* the loop is exhausted the only statement left is the call of
\* send_execution_summary, from which nothing escapes.
RaiseInRun ==
    /\ (pc = "loop" /\ idx <= Len(orders.list)) \/ pc = "classify"
    /\ notifications' = Append(notifications, CriticalError(ErrorText))
    /\ pc' = "done"
    /\ UNCHANGED << call, shop, environment, dev_test_email,
                    bcc_email, response, orders,
                    idx, stats, success, cur, results >>

\* email_service.py line 140: smtplib.SMTP(server, port) is given no timeout
\* and the module sets no default socket timeout: when the SMTP server
\* accepts the connection and never answers, the call does not return
SendEmailBlocks ==
    /\ pc = "send"
    /\ ~(environment = "development" /\ dev_test_email = "")
    /\ cur' = [cur EXCEPT !.smtp = "silent"]
    /\ pc' = "blocked"
    /\ UNCHANGED << call, shop, environment, dev_test_email,
                    bcc_email, response, orders,
                    idx, stats, success, results, notifications >>

FaultNext ==
    \/ FetchOrders
    \/ BeginOrder
    \/ ResolveLinks
    \/ FetchCustomer
    \/ FetchAddress
    \/ GenerateTemplate
    \/ SendEmail
    \/ UpdateState
    \/ RaiseInOrder
    \/ ClassifyOrder
    \/ SendExecutionSummary
    \/ RaiseInRun
    \/ SendEmailBlocks

\* the event loop keeps running the task: every step that is enabled is
\* eventually taken
FaultSpec == Init /\ [][FaultNext]_vars /\ WF_vars(FaultNext)

\* ------------------------------------------- successive runs on one source
\* The program is started again and again against the same order source
\* (main() makes one run per invocation; process_all_orders_async can also
\* be awaited again on the processor that main() built).  The source holds
\* each order's state and answers the query of a run with the orders that
\* are in state 3 at that moment.

\* the ids the query filter[current_state]=[3] selects, in id order
PendingIds(r) ==
    SelectSeq([i \in 1..MaxOrders |-> i],
              LAMBDA i : r.state[i] = PendingState)

\* the document the order source answers with: the selected orders, each
\* with a tracking number and both links
Selected(r) ==
    LET ids == PendingIds(r)
    IN  Document([j \in 1..Len(ids) |->
                     Order(ids[j], MapText(Trk), Link, Link)])

RunsInit ==
    /\ environment = "production"
    /\ dev_test_email = ""
    /\ bcc_email = ""
    /\ shop \in { [tracked |-> TRUE, run |-> 1, state |-> st,
                    mails |-> [i \in 1..MaxOrders |-> 0]] :
                      st \in [1..MaxOrders -> {PendingState, ShippedState}] }
    /\ response = Response("xml", Selected(shop))
    /\ orders = ListResult(<<>>)
    /\ pc = "start"
    /\ idx = 1
    /\ stats = ZeroStats
    /\ success = FALSE
    /\ cur = Idle
    /\ results = <<>>
    /\ notifications = <<>>
    /\ call = NoCall

\* the locals of a new call of process_all_orders_async, and the answer the
\* order source has for its query
Rerun ==
    /\ pc = "done"
    /\ shop.tracked
    /\ shop.run < MaxRuns
    /\ pc' = "start"
    /\ shop' = [shop EXCEPT !.run = @ + 1]
    /\ response' = Response("xml", Selected(shop))
    /\ orders' = ListResult(<<>>)
    /\ idx' = 1
    /\ success' = FALSE
    /\ cur' = Idle
    /\ results' = <<>>
    /\ notifications' = <<>>
    /\ UNCHANGED << call, environment, dev_test_email, bcc_email >>

\* process_all_orders_async awaited again on the same OrderProcessor:
\* self.stats is the dictionary __init__ created, as the last run left it
RunAgain ==
    /\ Rerun
    /\ UNCHANGED stats

\* main() invoked again: a new OrderProcessor, whose __init__ creates the
\* statistics
NewProcess ==
    /\ Rerun
    /\ stats' = ZeroStats

RunsNext ==
    \/ FetchOrders
    \/ BeginOrder
    \/ ResolveLinks
    \/ FetchCustomer
    \/ FetchAddress
    \/ GenerateTemplate
    \/ SendEmail
    \/ UpdateState
    \/ RaiseInOrder
    \/ ClassifyOrder
    \/ SendExecutionSummary
    \/ RunAgain
    \/ NewProcess

RunsSpec == RunsInit /\ [][RunsNext]_vars

\* ------------------------------------------------ the summary's delivery
\* The run followed into the NotificationManager: send_execution_summary
\* awaits notify_warning or notify_success, whose channels are the
\* coroutines above, on a manager built from any configuration.

\* the notify function send_execution_summary awaits (lines 146-165)
SummaryFn(st) ==
    IF st.orders_failed > 0 THEN "notify_warning" ELSE "notify_success"

SummaryInit ==
    /\ environment = "production"
    /\ dev_test_email = ""
    /\ bcc_email = ""
    /\ response =
          Response("xml",
                   Document([i \in 1..MaxOrders |->
                               Order(i, MapText(Trk), Link, Link)]))
    /\ orders = ListResult(<<>>)
    /\ pc = "start"
    /\ idx = 1
    /\ stats = ZeroStats
    /\ success = FALSE
    /\ cur = Idle
    /\ results = <<>>
    /\ notifications = <<>>
    /\ call = NoCall
    /\ shop = Untracked

\* lines 132-165: with orders processed the summary is built and the notify
\* function is awaited
AwaitSummary ==
    /\ pc = "loop"
    /\ idx > Len(orders.list)
    /\ stats.orders_processed # 0
    /\ notifications' = notifications \o send_execution_summary(stats)
    /\ \E cfg \in NotifyConfigs : call' = Notify(SummaryFn(stats), cfg)
    /\ pc' = "call"
    /\ UNCHANGED << shop, environment, dev_test_email,
                    bcc_email, response, orders,
                    idx, stats, success, cur, results >>

\* SummaryReturns with a critical notification issued when the notify
\* function returned False
SummaryReturns_CriticalWhenUndelivered ==
    /\ pc = "call"
    /\ call.fn \in {"notify_warning", "notify_success"}
    /\ call.returned
    /\ notifications' =
          IF call.result THEN notifications
          ELSE Append(notifications, Notification("critical", <<>>))
    /\ pc' = "done"
    /\ UNCHANGED << call, shop, environment, dev_test_email,
                    bcc_email, response, orders,
                    idx, stats, success, cur, results >>

\* lines 155-165 and 205-211: the value the notify function returned is
\* dropped, send_execution_summary returns and the run ends
SummaryReturns ==
    /\ pc = "call"
    /\ call.fn \in {"notify_warning", "notify_success"}
    /\ call.returned
    /\ pc' = "done"
    /\ UNCHANGED << call, shop, environment, dev_test_email,
                    bcc_email, response, orders,
                    idx, stats, success, cur, results, notifications >>

\* lines 167-168: an Exception raised while the summary is built (before
\* the notify function is called) or by the awaited notify function is
\* logged, send_execution_summary returns and the run ends.  The notify
\* functions catch their own exceptions, so the exception is one of the
\* interpreter or of a substituted collaborator.
SummaryRaises ==
    /\ \/ pc = "loop" /\ idx > Len(orders.list)
       \/ pc = "call" /\ Notifying
    /\ pc' = "done"
    /\ UNCHANGED << call, shop, environment, dev_test_email,
                    bcc_email, response, orders,
                    idx, stats, success, cur, results, notifications >>

SummaryNext ==
    \/ FetchOrders
    \/ BeginOrder
    \/ ResolveLinks
    \/ FetchCustomer
    \/ FetchAddress
    \/ GenerateTemplate
    \/ SendEmail
    \/ UpdateState
    \/ RaiseInOrder
    \/ ClassifyOrder
    \/ AwaitSummary
    \/ StartEmail
    \/ FinishEmail
    \/ StartSlack
    \/ FinishSlack
    \/ ReturnNotification
    \/ SummaryReturns
    \/ SummaryRaises

\* the event loop keeps running the task, and both channel exchanges carry a
\* timeout (notifications.py lines 115 and 150): every step that is enabled
\* is eventually taken
SummarySpec == SummaryInit /\ [][SummaryNext]_vars /\ WF_vars(SummaryNext)

\* ------------------------------------------------------------------ claims

CountOf(seq, v) == Cardinality({ i \in DOMAIN seq : seq[i] = v })

LoopRan == ~orders.isNone /\ Len(orders.list) > 0

\* C1: every order iterated increments orders_processed once and exactly one
\* of orders_success / orders_failed once: the counters equal the number of
\* orders classified success / failure so far, orders_processed runs one
\* ahead while an order is in progress, and when the loop has completed
\* orders_processed = orders_success + orders_failed = number of candidates.
C1_StatsOncePerOrder ==
    /\ stats.orders_success = CountOf(results, TRUE)
    /\ stats.orders_failed = CountOf(results, FALSE)
    /\ stats.orders_processed =
          Len(results) + (IF pc \in InOrder \cup {"classify"} THEN 1 ELSE 0)
    /\ (pc = "done" /\ LoopRan =>
          /\ stats.orders_processed = Len(orders.list)
          /\ stats.orders_success + stats.orders_failed = Len(orders.list))

\* C1 witness: a completed run over several orders, some succeeded, some failed
C1_Witness ==
    /\ pc = "done"
    /\ Len(orders.list) >= 2
    /\ stats.orders_success >= 1
    /\ stats.orders_failed >= 1

\* C2: an order whose mail was sent is counted as success and not as failure
\* whether update_order_state returned true or false, and no entry for it is
\* in stats["errors"].
C2_SentMailIsSuccess ==
    [][ (pc = "classify" /\ cur.send = "ok" /\ cur.update \in {"ok", "fail"}) =>
          /\ stats'.orders_success = stats.orders_success + 1
          /\ stats'.orders_failed = stats.orders_failed
          /\ stats'.errors = stats.errors
          /\ \A k \in DOMAIN stats.errors :
                stats.errors[k].order_id # cur.order_id ]_vars

\* C2 witness: an order that returned True although its state update failed
C2_Witness ==
    /\ pc = "classify"
    /\ cur.send = "ok"
    /\ cur.update = "fail"
    /\ success

\* C3: after a run every order classified as failed has an entry in
\* stats["errors"] carrying its id.
C3_FailedOrdersRecorded ==
    pc = "done" =>
       \A i \in DOMAIN results :
          results[i] = FALSE =>
             \E k \in DOMAIN stats.errors :
                stats.errors[k].order_id = orders.list[i].id

TrackingText(f) ==
    IF f.t = "str" \/ (f.t = "map" /\ f.k = "str") THEN f.s ELSE <<>>

\* the answer holds no candidate: an empty body, no orders node, or orders
\* none of which has a tracking number
ZeroCandidates(r) ==
    \/ r.kind = "empty_body"
    \/ /\ r.kind = "xml"
       /\ r.data.prestashop = "map"
       /\ \/ r.data.orders \in {"absent", "none"}
          \/ /\ r.data.orders = "map"
             /\ r.data.order_t \in {"absent", "map", "list"}
             /\ \A i \in DOMAIN r.data.order_v :
                   /\ r.data.order_v[i].t = "map"
                   /\ r.data.order_v[i].shipping_number # MapNone
                   /\ Strip(TrackingText(r.data.order_v[i].shipping_number)) = <<>>

\* C5: when the order source answers with zero candidates the run ends with
\* an empty list (not None), no entity fetch, render, send or state
\* transition, no notification of any kind and untouched statistics.
C5_ZeroCandidatesNoOp ==
    /\ [](pc = "done" /\ ~orders.isNone /\ orders.list = <<>> =>
            results = <<>> /\ notifications = <<>> /\ stats = ZeroStats)
    /\ [][ (pc = "start" /\ ZeroCandidates(response)) =>
             /\ pc' = "done"
             /\ orders' = ListResult(<<>>)
             /\ notifications' = <<>> ]_vars

\* C5 witness: a run ended on an empty candidate list
C5_Witness ==
    /\ pc = "done"
    /\ response = Consumed
    /\ ~orders.isNone
    /\ orders.list = <<>>

\* C6: when the initial query fails (transport error, HTTP error, unparsable
\* payload) fetch_pending_shipment_orders returns None, exactly one critical
\* notification is issued and nothing else happens: no order is processed,
\* the statistics stay at zero, no summary is issued, the run ends.
C6_FetchFailureIsCritical ==
    /\ [](pc # "start" /\ orders.isNone =>
            /\ pc = "done"
            /\ notifications = << Notification("critical", <<>>) >>
            /\ results = <<>>
            /\ stats = ZeroStats)
    /\ [][ (pc = "start" /\
            response.kind \in {"transport_error", "http_error", "unparsable"}) =>
             orders'.isNone ]_vars

\* C6 witness: a run ended by a failed initial query
C6_Witness ==
    /\ pc = "done"
    /\ orders.isNone
    /\ Len(notifications) = 1

\* C7: a run that iterated at least one order issues exactly one summary
\* notification, only once every order is classified: success when
\* orders_failed = 0, warning otherwise.
C7_OneSummaryAfterLoop ==
    /\ (notifications # <<>> /\ LoopRan =>
          pc = "done" /\ Len(results) = Len(orders.list))
    /\ (pc = "done" /\ LoopRan =>
          /\ Len(notifications) = 1
          /\ notifications[1].kind =
                IF stats.orders_failed = 0 THEN "success" ELSE "warning")

\* C7 witness: a completed run with a failed order and its warning summary
C7_Witness ==
    /\ pc = "done"
    /\ Len(results) >= 2
    /\ stats.orders_failed = 1
    /\ notifications # <<>>
    /\ notifications[1].kind = "warning"

Min(a, b) == IF a < b THEN a ELSE b

\* C8: the warning summary carries exactly the first min(5, n) entries of
\* stats["errors"], in order; stats["errors"] only ever grows by appending.
C8_FirstFiveErrors ==
    /\ [](\A j \in DOMAIN notifications :
            notifications[j].kind = "warning" =>
               /\ Len(notifications[j].errors) = Min(5, Len(stats.errors))
               /\ \A k \in 1..Min(5, Len(stats.errors)) :
                     notifications[j].errors[k] = stats.errors[k])
    /\ [][ /\ Len(stats'.errors) >= Len(stats.errors)
           /\ SubSeq(stats'.errors, 1, Len(stats.errors)) = stats.errors ]_vars

\* C8 witness: more than five errors recorded, five of them reported
C8_Witness ==
    /\ pc = "done"
    /\ Len(stats.errors) > 5
    /\ notifications # <<>>
    /\ notifications[1].kind = "warning"
    /\ Len(notifications[1].errors) = 5

\* C9: per order the steps happen in the order resolve, render, send, state
\* transition: a step is made only when the one before succeeded, and an
\* order with a failed step before the state transition returns failure.
C9_StepOrder ==
    /\ (cur.customer # "none" => cur.links = "ok")
    /\ (cur.address # "none" => cur.customer = "ok")
    /\ (cur.render # "none" => cur.customer = "ok" /\ cur.address = "ok")
    /\ (cur.send # "none" => cur.render = "ok")
    /\ (cur.mail # NoMail => cur.render = "ok")
    /\ (cur.update # "none" \/ cur.request # NoRequest =>
          cur.send = "ok" /\ cur.mail # NoMail)
    /\ (pc = "classify" /\
        "fail" \in {cur.links, cur.customer, cur.address, cur.render, cur.send}
          => ~success /\ cur.update = "none" /\ cur.request = NoRequest)

\* C9 witness: an order that failed at the render, with no mail and no state
\* transition
C9_Witness ==
    /\ pc = "classify"
    /\ cur.render = "fail"
    /\ cur.send = "none"
    /\ ~success

\* C10: in every mode other than production a transmitted shipment mail goes
\* to the test address and never to the customer; in production mode it goes
\* to the customer's email.
C10_RecipientByMode ==
    cur.mail # NoMail =>
       IF environment = "production"
       THEN cur.mail.to = CustomerEmail
       ELSE cur.mail.to = dev_test_email /\ CustomerEmail \notin cur.mail.recipients

\* C11 as stated: the blind-copy address is in a shipment mail only in
\* production mode, as Bcc header iff as transport recipient, and in any
\* other mode the recipient list never contains the blind-copy address.
C11_BccOnlyInProduction ==
    cur.mail # NoMail /\ bcc_email # "" =>
       /\ (cur.mail.bcc = bcc_email <=> bcc_email \in cur.mail.recipients)
       /\ (environment # "production" =>
             cur.mail.bcc = "" /\ bcc_email \notin cur.mail.recipients)

\* C11 amended: a blind copy is added to a shipment mail only in production
\* mode with a blind-copy address configured, and then that address is both
\* the Bcc header and a transport recipient next to the primary recipient;
\* in every other case the mail has no Bcc header and its only transport
\* recipient is the primary recipient (so the list holds the blind-copy
\* address only when the primary recipient is that very address).
C11_BccAddedOnlyInProduction ==
    cur.mail # NoMail =>
       IF environment = "production" /\ bcc_email # ""
       THEN /\ cur.mail.bcc = bcc_email
            /\ cur.mail.recipients = {cur.mail.to, bcc_email}
       ELSE /\ cur.mail.bcc = ""
            /\ cur.mail.recipients = {cur.mail.to}

C11_Witness ==
    /\ cur.mail # NoMail
    /\ environment = "production"
    /\ cur.mail.bcc = BccEmail
    /\ cur.mail.recipients = {CustomerEmail, BccEmail}

\* the order's link to the customer or to the delivery address is absent,
\* not a mapping, or a mapping without the resource-link key
LinkMissing(order) ==
    \/ order.id_customer.t # "map" \/ order.id_customer.k = "nokey"
    \/ order.id_address_delivery.t # "map"
    \/ order.id_address_delivery.k = "nokey"

\* C12: an order that lacks the customer link or the delivery-address link
\* fails at link resolution: it is classified a failure and no customer
\* fetch, address fetch, render, send or state-transition call is made for
\* it.
C12_MissingLinkNoCalls ==
    pc \in InOrder \cup {"classify"} /\ LinkMissing(orders.list[idx]) =>
       /\ pc \in {"resolve", "classify"}
       /\ cur.customer = "none" /\ cur.address = "none"
       /\ cur.render = "none" /\ cur.send = "none" /\ cur.update = "none"
       /\ cur.mail = NoMail /\ cur.request = NoRequest
       /\ (pc = "classify" => ~success)

C12_Witness ==
    /\ pc = "classify"
    /\ LinkMissing(orders.list[idx])
    /\ cur.links = "fail"
    /\ orders.list[idx].id_customer = Link

\* C13 as stated: the two fetches are independent, a failed customer fetch
\* does not keep the address fetch from being issued.
C13_FetchesIndependent ==
    pc = "classify" /\ cur.customer = "fail" => cur.address # "none"

\* C13 amended: with both links present the customer is fetched first and
\* the address only once the customer fetch has succeeded: a failed customer
\* fetch ends the order without the address fetch being issued, and the
\* order is classified a failure if either fetch fails.
C13_CustomerFetchFirst ==
    /\ (cur.customer = "fail" => cur.address = "none" /\ pc = "classify")
    /\ (cur.address # "none" => cur.customer = "ok")
    /\ (pc = "classify" /\ "fail" \in {cur.customer, cur.address} =>
          ~success /\ cur.render = "none" /\ cur.send = "none")

C13_Witness ==
    /\ pc = "classify"
    /\ cur.links = "ok"
    /\ cur.customer = "fail"
    /\ cur.address = "none"
    /\ ~success

Ids(l) == [i \in DOMAIN l |-> l[i].id]

\* the order has a tracking number: the text of its field is not blank
HasTracking(order) == Strip(TrackingText(order.shipping_number)) # <<>>

\* the input is a list of orders whose tracking field is absent, None, a
\* bare string, a mapping without the text key or a mapping with a string
\* under it
PlainOrders(l) ==
    \A i \in DOMAIN l : l[i].t = "map" /\ l[i].shipping_number # MapNone

FilterReturned ==
    call.fn = "_filter_orders_with_tracking" /\ call.returned

\* C14: _filter_orders_with_tracking keeps an order iff the text of its
\* tracking field (bare string, string under the text key, empty when the
\* field or the key is absent), trimmed, is not empty, and the orders kept
\* are in the order of the input, each once, nothing but the tracking field
\* rewritten.
C14_FilterKeepsTracked ==
    FilterReturned /\ PlainOrders(call.arg) =>
       /\ ~call.result.raised
       /\ Ids(call.result.list) = Ids(SelectSeq(call.arg, HasTracking))
       /\ \A i \in DOMAIN call.result.list :
             LET kept == call.result.list[i]
             IN  /\ kept = [call.arg[kept.id] EXCEPT
                              !.shipping_number = kept.shipping_number]
                 /\ kept.shipping_number =
                       MapText(TrackingText(call.arg[kept.id].shipping_number))

C14_Witness ==
    /\ FilterReturned
    /\ PlainOrders(call.arg)
    /\ Len(call.arg) = 2
    /\ call.arg[1].shipping_number = Str(Blank)
    /\ call.arg[2].shipping_number = Str(<<" ", "T", " ">>)
    /\ Ids(call.result.list) = << 2 >>

\* the orders of the input that the call did not keep
Rejected ==
    { i \in DOMAIN call.arg :
        \A j \in DOMAIN call.result.list : call.result.list[j].id # i }

NormalizeReturned == call.fn = "_normalize_orders" /\ call.returned

\* the document has an orders node whose entry is one order mapping or a
\* list of order mappings
OrdersPresent(data) ==
    /\ data.prestashop = "map"
    /\ data.orders = "map"
    /\ data.order_t \in {"map", "list"}
    /\ \A i \in DOMAIN data.order_v : data.order_v[i].t = "map"

\* C16: _normalize_orders turns a single order given as a mapping into a
\* list of that one order, the same list as when the order comes as a list
\* of one, and returns a list of k orders as it is: the same orders in the
\* same order.
C16_SingleOrderIsListOfOne ==
    NormalizeReturned /\ OrdersPresent(call.arg) =>
       /\ call.result = call.arg.order_v
       /\ (call.arg.order_t = "map" => Len(call.result) = 1)
       /\ call.after = call.arg

C16_Witness ==
    /\ NormalizeReturned
    /\ call.arg.order_t = "map"
    /\ call.result = << Order(1, MapText(Trk), Link, Link) >>

\* the entry at the orders collection position is neither an order mapping
\* nor a list of order mappings: None, a bare string, or a list holding an
\* element that is not a mapping
UnexpectedOrders(r) ==
    /\ r.kind = "xml"
    /\ r.data.prestashop = "map"
    /\ r.data.orders = "map"
    /\ \/ r.data.order_t \in {"none", "str"}
       \/ /\ r.data.order_t = "list"
          /\ \E i \in DOMAIN r.data.order_v : r.data.order_v[i].t # "map"

\* C17: whatever unexpected shape the orders collection has, a list holding
\* non-mapping elements included, the initial fetch returns an empty
\* candidate list and the run ends as a no-op, with no critical
\* notification.
C17_UnexpectedShapeIsEmpty ==
    [][ pc = "start" /\ UnexpectedOrders(response) =>
          /\ orders' = ListResult(<<>>)
          /\ pc' = "done"
          /\ notifications' = <<>> ]_vars

\* every element of the payload is an order mapping
OrdersOnly(r) ==
    /\ r.kind = "xml"
    /\ OrdersPresent(r.data)

\* C18: no shape of an order's tracking field (bare string, mapping with the
\* text key whatever the value under it, mapping without it, absent) makes
\* the normalization raise: the initial fetch of a payload of order mappings
\* never fails and no critical notification follows.
C18_TrackingShapeNeverFails ==
    [][ pc = "start" /\ OrdersOnly(response) =>
          /\ ~orders'.isNone
          /\ notifications' = <<>> ]_vars

ExtractReturned == call.fn = "_extract_xlink_href" /\ call.returned

\* C19: _extract_xlink_href returns the value under the resource-link key of
\* a mapping that has the key, and None for an absent field, a field that is
\* not a mapping and a mapping without the key; what it returns depends on
\* the field alone, and the field is left as it was.
C19_ExtractLinkIsPure ==
    ExtractReturned =>
       /\ (call.arg.t = "map" /\ call.arg.k = "str" =>
             call.result = Str(call.arg.s))
       /\ (call.arg = MapNone => call.result = PyNone)
       /\ (call.arg.t # "map" \/ call.arg.k = "nokey" =>
             call.result = PyNone)
       /\ call.after = call.arg

C19_Witness ==
    /\ ExtractReturned
    /\ call.arg = MapText(Url)
    /\ call.result = Str(Url)

\* C20: the template render and the mail send never raise into
\* process_single_order.  When the template service errors, times out or
\* answers without HTML, generate_email_template returns None and the order
\* fails with no mail sent; when the SMTP exchange fails,
\* send_shipment_confirmation_email returns False and the order fails with
\* no state transition; in neither case is an exception recorded for the
\* order.
C20_NotifierNeverRaises ==
    /\ (cur.template \in {"no_html", "error"} =>
          /\ pc = "classify" /\ ~success /\ ~cur.raised
          /\ cur.render = "fail"
          /\ cur.send = "none" /\ cur.mail = NoMail /\ cur.update = "none")
    /\ (cur.smtp = "error" =>
          /\ pc = "classify" /\ ~success /\ ~cur.raised
          /\ cur.send = "fail"
          /\ cur.mail = NoMail /\ cur.update = "none")
    /\ (cur.template = "html" => cur.render = "ok")
    /\ (pc = "classify" /\ ~cur.raised /\ "fail" \in {cur.render, cur.send} =>
          \A i \in DOMAIN stats.errors :
             stats.errors[i].order_id # cur.order_id)

C20_Witness ==
    /\ pc = "classify"
    /\ cur.template = "no_html"
    /\ cur.render = "fail"
    /\ cur.mail = NoMail
    /\ ~success

\* the outbound calls of process_single_order, named as the position that
\* issues them
Steps == {"customer", "address", "render", "send", "update"}

\* C21: no call is retried.  A step of an order issues its call only when
\* that call has not been issued for the order yet and touches no other
\* call, so each order gets at most one customer fetch, address fetch,
\* render, mail and state-transition request; an order whose every step
\* succeeded got exactly one of each, its mail went (in production mode) to
\* the customer's address, and its request names the order's id and state 4.
C21_NoRetry ==
    /\ [][ (pc \in Steps /\ cur' # cur /\ pc' # "loop") =>
             /\ cur[pc] = "none"
             /\ (\A s \in Steps \ {pc} : cur'[s] = cur[s]) ]_vars
    /\ [](pc = "classify" /\ success /\ cur.update = "ok" =>
             /\ \A s \in Steps : cur[s] = "ok"
             /\ (environment = "production" =>
                   /\ cur.mail.to = CustomerEmail
                   /\ CustomerEmail \in cur.mail.recipients)
             /\ cur.request = [id_order |-> orders.list[idx].id,
                               id_employee |-> EmployeeId,
                               id_order_state |-> ShippedState])

C21_Witness ==
    /\ pc = "classify"
    /\ success
    /\ \A s \in Steps : cur[s] = "ok"
    /\ environment = "production"
    /\ cur.mail.to = CustomerEmail
    /\ cur.request.id_order = 2

\* the messages delivered on a channel
DeliveredOn(ch) == { m \in call.delivered : m.channel = ch }

\* C22: a critical notification runs the mail channel and the chat channel
\* as two tasks joined by gather.  However the tasks interleave, when the
\* notification returns both channels have returned, every enabled channel
\* was attempted whatever became of the other, and the value returned is
\* true iff at least one channel delivered; no exchange completes before the
\* other channel has been started, and a channel that has failed leaves the
\* other one to run.
C22_CriticalBothChannels ==
    call.fn = "send_critical_notification" =>
       /\ (call.returned =>
             /\ call.email.state = "done" /\ call.slack.state = "done"
             /\ call.email.attempted = call.enabled.email
             /\ call.slack.attempted = call.enabled.slack
             /\ call.result = (call.email.result \/ call.slack.result)
             /\ call.result = (call.delivered # {}))
       /\ (call.email.result <=> DeliveredOn("email") # {})
       /\ (call.slack.result <=> DeliveredOn("slack") # {})
       /\ (call.email.attempted /\ call.email.state = "done" =>
             call.slack.state # "pending")
       /\ (call.slack.attempted /\ call.slack.state = "done" =>
             call.email.state # "pending")

C22_Witness ==
    /\ call.fn = "send_critical_notification"
    /\ call.returned
    /\ call.email.attempted /\ ~call.email.result
    /\ call.slack.attempted /\ call.slack.result
    /\ call.result

Summaries == {"notify_warning", "notify_success"}

\* C23 as stated: the summary notification starts both channels before
\* either has completed and attempts both whatever the other's outcome.
C23_SummaryChannelsConcurrent ==
    call.fn \in Summaries /\ call.enabled.email /\ call.enabled.slack =>
       /\ ~(call.email.state = "done" /\ call.slack.state = "pending")
       /\ ~(call.slack.state = "done" /\ call.email.state = "pending")
       /\ (call.returned => call.email.attempted /\ call.slack.attempted)

\* C23 amended: only the critical notification runs its channels
\* concurrently.  The warning summary awaits the mail channel to completion
\* and only then starts the chat channel, attempting both whatever the
\* first one returned.  The success summary starts with the chat channel
\* and enters the mail channel only as a fallback, after the chat channel
\* has returned False; when the chat channel delivered, the mail channel is
\* never started.
C23_SummaryChannelsSequential ==
    /\ (call.fn = "notify_warning" =>
          /\ (call.slack.state # "pending" => call.email.state = "done")
          /\ (call.returned =>
                /\ call.email.state = "done" /\ call.slack.state = "done"
                /\ call.email.attempted = call.enabled.email
                /\ call.slack.attempted = call.enabled.slack
                /\ call.result = (call.delivered # {})))
    /\ (call.fn = "notify_success" =>
          /\ (call.email.state # "pending" =>
                call.slack.state = "done" /\ ~call.slack.result)
          /\ (call.returned =>
                /\ call.slack.state = "done"
                /\ call.slack.attempted = call.enabled.slack
                /\ (call.slack.result <=> call.email.state = "pending")
                /\ (~call.slack.result =>
                      /\ call.email.state = "done"
                      /\ call.email.attempted = call.enabled.email)
                /\ call.result = (call.delivered # {})))

C23_Witness ==
    /\ call.fn = "notify_warning"
    /\ call.enabled.email /\ call.enabled.slack
    /\ call.email.state = "done" /\ call.email.attempted
    /\ call.slack.state = "pending"

\* a channel is off: disabled by its flag, or lacking its configuration
EmailOff == ~call.arg.email_flag \/ ~call.arg.email_config

SlackOff == ~call.arg.slack_flag \/ ~call.arg.webhook_url

\* C28: the two channels are enabled or disabled independently.  A channel
\* that is off (flag false, or configuration missing at construction) is
\* never attempted, delivers nothing and returns False; the other channel,
\* if it is on, has been attempted by the time the notification returns
\* (for the success summary the mail channel is the fallback of a chat
\* channel that delivered nothing), whatever the first channel returned.
C28_ChannelsIndependent ==
    call.fn \in NotifyFns =>
       /\ (EmailOff =>
             /\ ~call.email.attempted /\ ~call.email.result
             /\ call.email.state # "running"
             /\ DeliveredOn("email") = {})
       /\ (SlackOff =>
             /\ ~call.slack.attempted /\ ~call.slack.result
             /\ call.slack.state # "running"
             /\ DeliveredOn("slack") = {})
       /\ (call.returned /\ ~SlackOff => call.slack.attempted)
       /\ (call.returned /\ ~EmailOff /\ ~call.slack.result =>
             call.email.attempted)
       /\ (call.returned /\ ~EmailOff /\ call.fn # "notify_success" =>
             call.email.attempted)

C28_Witness ==
    /\ call.fn = "notify_warning"
    /\ call.returned
    /\ call.arg.email_flag /\ ~call.arg.email_config
    /\ ~call.email.attempted /\ ~call.email.result
    /\ call.slack.attempted /\ call.slack.result
    /\ call.result

\* C30: every message delivered for the summary of a run without failures
\* (notify_success) is marked as success, on whichever channel it went out.
C30_SuccessSummaryMarkedSuccess ==
    call.fn = "notify_success" =>
       \A m \in call.delivered : m.marking = "success"

\* C29: orders are processed one after the other in the order of the
\* filtered list: while an order is in flight it is the one at the loop's
\* position and every earlier order has been classified, between two orders
\* none is in flight, the position moves by one and only when the order in
\* flight is classified, and an order is only taken up when none is in
\* flight.
C29_OrdersSequential ==
    /\ [](pc \in InOrder \cup {"classify"} =>
            /\ idx \in 1..Len(orders.list)
            /\ cur.order_id = orders.list[idx].id
            /\ Len(results) = idx - 1)
    /\ [](pc = "loop" => cur = Idle /\ Len(results) = idx - 1)
    /\ [][ (idx' # idx) =>
              (pc = "classify" /\ idx' = idx + 1 /\ Len(results') = idx) ]_vars
    /\ [][ (cur'.order_id # cur.order_id /\ cur' # Idle) =>
              (pc = "loop" /\ cur = Idle) ]_vars

\* the second order's customer is fetched after the first was classified
C29_Witness ==
    /\ pc = "address"
    /\ idx = 2
    /\ Len(results) = 1
    /\ cur.order_id = orders.list[2].id
    /\ cur.customer = "ok"

\* C25: the statistics belong to one run: every run starts with all counters
\* zero and no errors, and at its end the counters count the orders of that
\* run only and the summary tells a run whose orders all succeeded as a
\* success.
C25_StatsPerRun ==
    /\ pc = "start" => stats = ZeroStats
    /\ pc = "done" /\ ~orders.isNone =>
          /\ stats.orders_processed = Len(results)
          /\ (results # <<>> /\ \A i \in DOMAIN results : results[i]) =>
                notifications = << Notification("success", <<>>) >>

\* C26: the order source moves an order to state 4 only when the state
\* transition posted after its mail was accepted; a transition that fails
\* after the mail was sent leaves the order in state 3 with the mail
\* delivered; the query of every run returns exactly the orders in state 3,
\* whatever mails they have received; and an order that already has a mail
\* is mailed again whenever it is still in state 3.
C26_UnshippedOrderMailedAgain ==
    /\ [][ (shop'.state # shop.state) =>
              /\ pc = "update"
              /\ cur.send = "ok"
              /\ cur'.update = "ok"
              /\ shop'.state =
                    [shop.state EXCEPT ![cur.order_id] = ShippedState] ]_vars
    /\ [][ (pc = "update" /\ cur'.update = "fail") =>
              /\ shop'.state = shop.state
              /\ shop.state[cur.order_id] = PendingState
              /\ shop.mails[cur.order_id] >= 1
              /\ success' ]_vars
    /\ [][ (pc = "start" /\ pc' # "start") =>
              (Ids(orders'.list) = PendingIds(shop)) ]_vars
    /\ [][ (pc = "send" /\ cur'.send = "ok") =>
              /\ shop.state[cur.order_id] = PendingState
              /\ shop'.mails =
                    [shop.mails EXCEPT ![cur.order_id] = @ + 1] ]_vars

\* the second run has sent the second shipment mail of order 1, whose
\* transition failed in the first run
C26_Witness ==
    /\ shop.tracked
    /\ shop.run = 2
    /\ pc = "update"
    /\ cur.order_id = 1
    /\ shop.mails[1] = 2
    /\ shop.state[1] = PendingState

\* the handler of process_all_orders_async has run: the run is over with a
\* critical notification although the initial query returned a list
Escaped ==
    /\ pc = "done"
    /\ ~orders.isNone
    /\ \E i \in DOMAIN notifications : notifications[i].kind = "critical"

\* C24: an exception that leaves the loop, or the code between the fetch
\* and the loop, ends the run: the counters and the classified orders stay
\* as they were, no step is taken afterwards, and the only notification of
\* the run is one critical notification carrying a timestamp and the text
\* of the exception; no summary is issued.
C24_EscapedExceptionAborts ==
    /\ [](Escaped =>
            /\ notifications = << CriticalError(ErrorText) >>
            /\ "timestamp" \in DOMAIN notifications[1].details
            /\ notifications[1].message = ErrorText
            /\ Len(results) <= Len(orders.list)
            /\ stats.orders_success + stats.orders_failed = Len(results))
    /\ [][ ~Escaped ]_vars
    /\ [][ (Escaped' /\ ~Escaped) =>
              /\ pc \in {"loop", "classify"}
              /\ stats' = stats
              /\ results' = results
              /\ idx' = idx
              /\ shop' = shop ]_vars

\* the exception left the loop after the first of two orders was classified:
\* the second order is not processed
C24_Witness ==
    /\ Escaped
    /\ Len(orders.list) = 2
    /\ Len(results) = 1
    /\ stats.orders_processed = 1

\* C27: every outbound call returns within its timeout: the mail send of an
\* order always comes back, sent or failed.
C27_MailSendReturns == (pc = "send") ~> (pc \in {"update", "classify"})

\* C31: whenever the loop is between two orders stats["errors"] has no more
\* entries than orders_failed; an entry is added only by the exception
\* handler of process_single_order, for the order in flight, which then
\* returns False and is the only entry of that order; an order that returns
\* True has added none.
C31_ErrorsWithinFailed ==
    /\ [](pc \in {"loop", "done"} =>
            Len(stats.errors) <= stats.orders_failed)
    /\ [](pc = "classify" /\ success =>
            /\ ~cur.raised
            /\ Len(stats.errors) <= stats.orders_failed)
    /\ [][ (stats'.errors # stats.errors) =>
              /\ pc \in InOrder
              /\ ~cur.raised
              /\ cur'.raised
              /\ pc' = "classify"
              /\ ~success'
              /\ Len(stats.errors) <= stats.orders_failed
              /\ stats'.errors =
                    Append(stats.errors, [order_id |-> cur.order_id,
                                          error |-> "exception"]) ]_vars

\* the second order raised after the first had succeeded: one entry, one
\* failure
C31_Witness ==
    /\ pc = "loop"
    /\ results = << TRUE, FALSE >>
    /\ Len(stats.errors) = 1
    /\ stats.errors[1].order_id = orders.list[2].id
    /\ stats.orders_failed = 1

\* the notifications of the run that are of one of the kinds
OfKind(kinds) ==
    { i \in DOMAIN notifications : notifications[i].kind \in kinds }

\* C32: a run issues at most one critical notification and at most one
\* summary, and never both; the critical notification is issued either by
\* the initial fetch returning None or by the handler of an exception that
\* left the loop, and once it is issued the run is over: no summary follows.
C32_SummaryOrCritical ==
    /\ [](/\ Cardinality(OfKind({"critical"})) <= 1
          /\ Cardinality(OfKind({"warning", "success"})) <= 1
          /\ ~(OfKind({"critical"}) # {} /\
               OfKind({"warning", "success"}) # {}))
    /\ [](OfKind({"critical"}) # {} => pc = "done")
    /\ [][ (Cardinality(OfKind({"critical"}))' >
              Cardinality(OfKind({"critical"}))) =>
              \/ pc = "start" /\ orders'.isNone
              \/ /\ pc \in {"loop", "classify"}
                 /\ ~orders.isNone
                 /\ notifications' = << CriticalError(ErrorText) >> ]_vars
    /\ [][ (Cardinality(OfKind({"warning", "success"}))' >
              Cardinality(OfKind({"warning", "success"}))) =>
              /\ pc = "loop"
              /\ idx > Len(orders.list)
              /\ notifications = <<>> ]_vars

\* an exception left the loop after an order had failed: the critical
\* notification is the only one, the failure is not summarised
C32_Witness ==
    /\ pc = "done"
    /\ stats.orders_failed = 1
    /\ OfKind({"critical"}) = {1}
    /\ OfKind({"warning", "success"}) = {}

\* in development mode without a test address the send of the order in
\* flight returned False before any transmission, the order fails and no
\* state transition is requested
NoTestAddressNoSend ==
    environment = "development" /\ dev_test_email = "" /\ cur.send # "none" =>
       /\ cur.send = "fail"
       /\ cur.mail = NoMail
       /\ cur.smtp = "none"
       /\ cur.update = "none"
       /\ cur.request = NoRequest
       /\ pc = "classify"
       /\ ~success

Classified(ok) == Cardinality({ i \in DOMAIN results : results[i] = ok })

\* the summary was not delivered: the notify function returned False (both
\* channels failed or were disabled), or an exception ended
\* send_execution_summary before the notify function returned
Undelivered ==
    /\ pc = "done"
    /\ idx > Len(orders.list)
    /\ results # <<>>
    /\ call.fn \in NotifyFns => ~call.returned \/ ~call.result

\* C34: a summary that is not delivered is absorbed: from the end of the
\* loop on no step changes the statistics or the classified orders, no
\* critical notification is ever issued, the counters of the finished run
\* are those of its orders whether or not the summary was delivered, and
\* the run always ends.
C34_SummaryFailureAbsorbed ==
    /\ [][ (pc = "call" \/ (pc = "loop" /\ idx > Len(orders.list))) =>
              /\ stats' = stats
              /\ results' = results
              /\ orders' = orders
              /\ idx' = idx
              /\ pc' \in {"call", "done"}
              /\ OfKind({"critical"})' = {} ]_vars
    /\ [](Undelivered =>
            /\ OfKind({"critical"}) = {}
            /\ Len(notifications) <= 1
            /\ stats.orders_processed = Len(results)
            /\ stats.orders_success = Classified(TRUE)
            /\ stats.orders_failed = Classified(FALSE))
    /\ ((pc = "loop" /\ idx > Len(orders.list)) ~> (pc = "done"))

\* both channels were enabled and both exchanges failed: the warning
\* summary of a run with a failed order reached nobody and the run is over
C34_Witness ==
    /\ Undelivered
    /\ call.fn = "notify_warning"
    /\ call.returned
    /\ call.email.attempted /\ ~call.email.result
    /\ call.slack.attempted /\ ~call.slack.result
    /\ stats.orders_failed >= 1

=============================================================================
